---- MODULE Spec2Model ----
(***************************************************************************)
(* Model of the maritime pilot report assistant.  Spec is the voice        *)
(* WebSocket path: the connection manager of app/routers/voice.py and the  *)
(* shared VoiceService of app/services/voice_service.py.  ComposeSpec is   *)
(* one POST /chat request of app/routers/chat.py through the adapter of    *)
(* app/services/openai_service.py or gemini_service.py, next to the voice  *)
(* pipeline's composition of the same model result.                        *)
(*                                                                         *)
(* The request of ComposeSpec has the shape chat and the adapters read: an *)
(* ai_provider attribute and messages that can be subscripted, although    *)
(* ChatRequest and Message of app/models/schemas.py provide neither.       *)
(*                                                                         *)
(* Texts are sequences of tokens (strings), the empty text is << >>.       *)
(* Python dicts are sequences of [k, v] pairs in insertion order.          *)
(* One asyncio event loop runs everything: a handler runs until it awaits  *)
(* an external call (transcription, chat completion, speech synthesis);    *)
(* the tasks made by asyncio.create_task run, first in first out, before   *)
(* the loop handles the next I/O event.                                    *)
(***************************************************************************)
EXTENDS Integers, Sequences, FiniteSets, TLC

\* ------------------------------------------------------------------ bounds

\* messages a run's clients send in total
MaxMsgs == 2
\* messages a socket buffers while its handler is busy
MaxInbox == 1

\* ------------------------------------------------------------- input sets

\* the WebSocket objects of a run (each is accepted at most once)
Conns == {"ws1", "ws2"}
\* the client_id path parameters clients choose
ClientIds == {"a", "b"}
Roles == {"co-worker", "butler"}

NoConn == "no-websocket"
NoClient == "no-client"
NoRole == "no-role"

EmptyDict == << >>
EmptyText == << >>

\* ------------------------------------------------------------ Python dicts

RECURSIVE DictHas(_, _)
DictHas(d, k) ==
  IF d = << >> THEN FALSE
  ELSE IF Head(d).k = k THEN TRUE ELSE DictHas(Tail(d), k)

RECURSIVE DictGet(_, _, _)
DictGet(d, k, default) ==
  IF d = << >> THEN default
  ELSE IF Head(d).k = k THEN Head(d).v ELSE DictGet(Tail(d), k, default)

\* d[k] = v : an existing key keeps its place, a new key goes last
RECURSIVE DictSet(_, _, _)
DictSet(d, k, v) ==
  IF d = << >> THEN << [k |-> k, v |-> v] >>
  ELSE IF Head(d).k = k THEN << [k |-> k, v |-> v] >> \o Tail(d)
       ELSE << Head(d) >> \o DictSet(Tail(d), k, v)

DictKeys(d) == { d[i].k : i \in DOMAIN d }

\* ------------------------------------------------------------------- texts

Whitespace == {" "}

RECURSIVE LStrip(_)
LStrip(t) ==
  IF t = << >> THEN t
  ELSE IF Head(t) \in Whitespace THEN LStrip(Tail(t)) ELSE t

RECURSIVE RStrip(_)
RStrip(t) ==
  IF t = << >> THEN t
  ELSE IF t[Len(t)] \in Whitespace THEN RStrip(SubSeq(t, 1, Len(t) - 1)) ELSE t

\* str.strip()
Strip(t) == RStrip(LStrip(t))

LowerToken(tok) ==
  CASE tok = "NULL" -> "null"
    [] tok = "Null" -> "null"
    [] tok = "None" -> "none"
    [] tok = "NONE" -> "none"
    [] OTHER -> tok

\* str.lower()
Lower(t) == [i \in DOMAIN t |-> LowerToken(t[i])]

\* "sep".join(parts), parts a sequence of texts
RECURSIVE Join(_, _)
Join(parts, sep) ==
  IF parts = << >> THEN EmptyText
  ELSE IF Len(parts) = 1 THEN parts[1]
       ELSE parts[1] \o << sep >> \o Join(Tail(parts), sep)

\* ------------------------------------------------- values the model suggests

\* A JSON value of a suggestion: a string s, an int n, a float of n tenths,
\* or null.
StrVal(s) == [t |-> "str", s |-> s, n |-> 0]
IntVal(n) == [t |-> "int", s |-> "", n |-> n]
FloatVal(tenths) == [t |-> "float", s |-> "", n |-> tenths]
NoneVal == [t |-> "none", s |-> "", n |-> 0]

\* int(x): truncation toward zero
TruncTenths(n) == IF n >= 0 THEN n \div 10 ELSE -((-n) \div 10)

\* str(x)
PyStr(val) ==
  CASE val.t = "str" -> val.s
    [] val.t = "int" -> ToString(val.n)
    [] val.t = "float" ->
         (IF val.n < 0 THEN "-" ELSE "") \o ToString(TruncTenths(IF val.n < 0 THEN -val.n ELSE val.n))
           \o "." \o ToString((IF val.n < 0 THEN -val.n ELSE val.n) % 10)
    [] OTHER -> "None"

\* ----------------------------------------------- VoiceService._format_updates

\* the list marker of the source, U+2022 and a space, then the opening "**"
Bullet == "(bullet) **"

FIELD_INFO(field) ==
  CASE field = "report-number" -> [section |-> "Report Information", label |-> "Report Number"]
    [] field = "report-date" -> [section |-> "Report Information", label |-> "Date"]
    [] field = "observation-time" -> [section |-> "Report Information", label |-> "Time of Observation"]
    [] field = "location" -> [section |-> "Report Information", label |-> "Location"]
    [] field = "vessel-name" -> [section |-> "1. Vessel and Pilot Details", label |-> "Vessel Name"]
    [] field = "imo-number" -> [section |-> "1. Vessel and Pilot Details", label |-> "IMO Number"]
    [] field = "vessel-type" -> [section |-> "1. Vessel and Pilot Details", label |-> "Type of Vessel"]
    [] field = "pilot-id" -> [section |-> "1. Vessel and Pilot Details", label |-> "Pilot Name/ID"]
    [] field = "hazards-description" -> [section |-> "2. Safety Observations", label |-> "Hazards"]
    [] field = "pilotage-comments" -> [section |-> "3. Pilotage Practices & Recommendations", label |-> "Pilotage Comments"]
    [] field = "improvements" -> [section |-> "3. Pilotage Practices & Recommendations", label |-> "Improvements"]
    [] field = "workload" -> [section |-> "4. Work-Related Stress & Fatigue", label |-> "Workload"]
    [] field = "additional-comment" -> [section |-> "4. Work-Related Stress & Fatigue", label |-> "Additional Comments"]
    [] field = "submitted-by" -> [section |-> "Submission Details", label |-> "Submitted by"]
    [] field = "submission-date" -> [section |-> "Submission Details", label |-> "Date of Submission"]
    [] OTHER -> [section |-> "", label |-> field]

\* the value as _format_updates shows it: a numeric workload as str(int(value))
DisplayValue(field, val) ==
  IF field = "workload" /\ val.t \in {"int", "float"}
  THEN ToString(IF val.t = "int" THEN val.n ELSE TruncTenths(val.n))
  ELSE PyStr(val)

ItemText(field, val) ==
  << "**", FIELD_INFO(field).label, "**: ", DisplayValue(field, val) >>

\* the loop over updated_fields.items(): section_to_items and standalone_items
RECURSIVE GroupUpdates(_, _, _)
GroupUpdates(items, section_to_items, standalone_items) ==
  IF items = << >>
  THEN [sections |-> section_to_items, standalone |-> standalone_items]
  ELSE LET field == Head(items).k
           section == FIELD_INFO(field).section
           item_text == ItemText(field, Head(items).v)
       IN IF section # ""
          THEN GroupUpdates(Tail(items),
                 DictSet(section_to_items, section,
                         Append(DictGet(section_to_items, section, << >>), item_text)),
                 standalone_items)
          ELSE GroupUpdates(Tail(items), section_to_items,
                 Append(standalone_items, << Bullet >> \o item_text \o << "**" >>))

SectionLines(section_to_items) ==
  [i \in DOMAIN section_to_items |->
     << Bullet, section_to_items[i].k, "**:\n" >> \o Join(section_to_items[i].v, "\n")]

_format_updates(updated_fields) ==
  IF updated_fields = EmptyDict THEN EmptyText
  ELSE LET g == GroupUpdates(updated_fields, EmptyDict, << >>)
           lines == SectionLines(g.sections) \o g.standalone
       IN << "I've updated the following fields:\n" >> \o Join(lines, "\n")

\* -------------------------------------------- VoiceService.transcribe_audio

\* transliterations of the four Korean noise strings of the source
NoiseBlocklist == {"nyuseu", "gimjaegyeong", "imnida", "annyeonghaseyo"}

\* a validation without the noise blocklist: only empty and null-like
\* transcripts are dropped
ValidateTranscriptNoBlocklist(transcript) ==
  LET transcribed_text == Strip(transcript)
  IN IF transcribed_text = EmptyText
        \/ Lower(transcribed_text) \in {EmptyText, << "null" >>, << "none" >>}
     THEN EmptyText
     ELSE transcribed_text

\* what transcribe_audio returns for the text Whisper gave
ValidateTranscript(transcript) ==
  LET transcribed_text == Strip(transcript)
  IN IF transcribed_text = EmptyText
        \/ Lower(transcribed_text) \in {EmptyText, << "null" >>, << "none" >>}
     THEN EmptyText
     ELSE IF \E i \in DOMAIN transcribed_text : transcribed_text[i] \in NoiseBlocklist
          THEN EmptyText
          ELSE transcribed_text

\* ------------------------------------- VoiceService.generate_chat_response

Apology == << "(the fixed apology text of generate_chat_response)" >>
Separator == "\n\n---\n\n"
ClosingRule == "\n\n---"
AiTextTag == "[AI_TEXT]: "

\* json.loads(arguments) with .get("reply", "") and .get("updates", [])
ArgReply(arguments) == IF arguments.has_reply THEN arguments.reply ELSE EmptyText
ArgUpdates(arguments) == IF arguments.has_updates THEN arguments.updates ELSE << >>

\* the loop over response.tool_calls: the function_calls list and the reply text
RECURSIVE FoldToolCalls(_, _, _)
FoldToolCalls(tool_calls, function_calls, ai_reply_text) ==
  IF tool_calls = << >>
  THEN [text |-> ai_reply_text, function_calls |-> function_calls]
  ELSE LET tool_call == Head(tool_calls)
           args == tool_call.arguments
       IN IF tool_call.name = "suggest_fields" /\ args.parses
          THEN FoldToolCalls(Tail(tool_calls),
                 Append(function_calls,
                        [call_id |-> tool_call.id, name |-> tool_call.name,
                         reply |-> ArgReply(args), updates |-> ArgUpdates(args)]),
                 IF ai_reply_text = EmptyText /\ ArgReply(args) # EmptyText
                 THEN ArgReply(args) ELSE ai_reply_text)
          ELSE FoldToolCalls(Tail(tool_calls), function_calls, ai_reply_text)

\* the result of generate_chat_response for a response of the chat model
ChatResult(response) == FoldToolCalls(response.tool_calls, << >>, response.content)

\* a chat failure that returns the empty result and no apology
ChatFailureEmpty == [text |-> EmptyText, function_calls |-> << >>]

\* the result of generate_chat_response when the chat completion raises
ChatFailure == [text |-> Apology, function_calls |-> << >>]

\* ------------------------------ VoiceService.process_audio/text_message

RECURSIVE ApplyUpdates(_, _)
ApplyUpdates(updates, updated_fields) ==
  IF updates = << >> THEN updated_fields
  ELSE LET field == Head(updates).field
           suggestion == Head(updates).suggestion
       IN ApplyUpdates(Tail(updates),
            IF field # "" /\ suggestion.t # "none"
            THEN DictSet(updated_fields, field, suggestion)
            ELSE updated_fields)

RECURSIVE CollectUpdatedFields(_, _)
CollectUpdatedFields(function_calls, updated_fields) ==
  IF function_calls = << >> THEN updated_fields
  ELSE CollectUpdatedFields(Tail(function_calls),
         ApplyUpdates(Head(function_calls).updates, updated_fields))

\* a display text that is the prose reply alone
CompleteTextProseOnly(chat_response) == chat_response.text

\* complete_text: the reply, then the summary between two rules
CompleteText(chat_response) ==
  LET updated_fields == CollectUpdatedFields(chat_response.function_calls, EmptyDict)
  IN IF updated_fields # EmptyDict
     THEN chat_response.text \o << Separator >> \o _format_updates(updated_fields)
            \o << ClosingRule >>
     ELSE chat_response.text

\* the MP3 bytes the speech API returns for a text; b"" is << >>
Speech(text) == << "mp3" >> \o text
NoAudio == << >>

\* func_call.copy() with 'reply' popped
StripReply(func_call) ==
  [call_id |-> func_call.call_id, name |-> func_call.name, updates |-> func_call.updates]

\* ------------------------------------------------------------------ inputs

UserTexts == { << "weather was bad" >> }

\* form_data a client sends with form_update
Forms == { EmptyDict, << [k |-> "vessel-name", v |-> StrVal("Beatrice 4")] >> }

\* what the transcription API returns for an audio message
Transcripts ==
  { EmptyText, << " ", "NULL" >>, << "hello", "nyuseu" >>, << " ", "weather was bad" >> }

NoArgs == [parses |-> FALSE, has_reply |-> FALSE, reply |-> EmptyText,
           has_updates |-> FALSE, updates |-> << >>]
Args(reply, updates) ==
  [parses |-> TRUE, has_reply |-> TRUE, reply |-> reply,
   has_updates |-> TRUE, updates |-> updates]
ToolCall(id, arguments) == [id |-> id, name |-> "suggest_fields", arguments |-> arguments]
Update(field, suggestion) == [field |-> field, suggestion |-> suggestion]

WeatherUpdates ==
  << Update("vessel-name", StrVal("Beatrice 4")), Update("wind-conditions", StrVal("Poor")) >>

\* the messages the chat model answers with
Responses ==
  { [content |-> << "Sure." >>, tool_calls |-> << >>],
    [content |-> EmptyText, tool_calls |-> << >>],
    [content |-> EmptyText,
     tool_calls |-> << ToolCall("call_1", Args(<< "Noted the weather." >>, WeatherUpdates)) >>],
    [content |-> EmptyText,
     tool_calls |-> << ToolCall("call_2", Args(EmptyText, WeatherUpdates)) >>],
    [content |-> EmptyText,
     tool_calls |-> << ToolCall("call_3", Args(<< "Anything else?" >>, << >>)) >>] }

\* --------------------------------------------- core/prompts.py, the adapters

\* the personas with a template of their own
Personas == {"co-worker", "butler", "coach"}

\* a selection without a default: a role no persona has is a KeyError
get_prompt_by_role_strict(role) ==
  CASE role = "co-worker" -> "COWORKER_PROMPT"
    [] role = "butler" -> "BUTLER_PROMPT"
    [] role = "coach" -> "COACH_PROMPT"
    [] OTHER -> "KeyError"

\* the template of a persona, by its name in prompts.py
get_prompt_by_role(role) ==
  CASE role = "co-worker" -> "COWORKER_PROMPT"
    [] role = "butler" -> "BUTLER_PROMPT"
    [] role = "coach" -> "COACH_PROMPT"
    [] OTHER -> "COWORKER_PROMPT"

\* the three kinds of instruction an adapter assembles
PersonaPart(ai_role) ==
  [tag |-> "persona", text |-> get_prompt_by_role(ai_role), form |-> EmptyDict]
FormPart(form) == [tag |-> "form", text |-> "Current form values: ", form |-> form]
FirstTurnPart ==
  [tag |-> "first-turn",
   text |-> "Focus on gathering information for fields that require user input or confirmation. No need to confirm already filled fields.",
   form |-> EmptyDict]

\* system_messages of openai_service.chat_completion; "if form" is false for {}
OpenAISystemMessages(form, is_first_message, ai_role) ==
  << PersonaPart(ai_role) >>
    \o (IF form # EmptyDict THEN << FormPart(form) >> ELSE << >>)
    \o (IF is_first_message THEN << FirstTurnPart >> ELSE << >>)

\* what openai_service.chat_completion sends: all_messages, the system
\* messages and then the conversation
OpenAIInvocation(messages, form, is_first_message, ai_role) ==
  [backend |-> "openai",
   instructions |-> OpenAISystemMessages(form, is_first_message, ai_role),
   turns |-> messages]

\* combined_system_prompt of gemini_service.chat_completion: the parts joined
\* by blank lines, in the order they were appended
GeminiSystemPrompt(form, is_first_message, ai_role) ==
  << PersonaPart(ai_role) >>
    \o (IF form # EmptyDict THEN << FormPart(form) >> ELSE << >>)
    \o (IF is_first_message THEN << FirstTurnPart >> ELSE << >>)

\* the conversion loop: user stays user, assistant becomes model, any other
\* role is dropped
RECURSIVE GeminiMessages(_)
GeminiMessages(messages) ==
  IF messages = << >> THEN << >>
  ELSE LET msg == Head(messages)
           rest == GeminiMessages(Tail(messages))
       IN CASE msg.role = "user" ->
                 << [role |-> "user", instructions |-> << >>, content |-> msg.content] >> \o rest
            [] msg.role = "assistant" ->
                 << [role |-> "model", instructions |-> << >>, content |-> msg.content] >> \o rest
            [] OTHER -> rest

\* what gemini_service.chat_completion sends: the chat starts with an empty
\* history and send_message_async gets the last element of gemini_messages,
\* after the system prompt was put first
GeminiInvocation(messages, form, is_first_message, ai_role) ==
  LET combined_system_prompt == GeminiSystemPrompt(form, is_first_message, ai_role)
      system_message ==
        [role |-> "user", instructions |-> combined_system_prompt, content |-> EmptyText]
      gemini_messages == << system_message >> \o GeminiMessages(messages)
      last_message == gemini_messages[Len(gemini_messages)]
  IN [backend |-> "gemini",
      instructions |-> last_message.instructions,
      turns |-> IF last_message.instructions = << >>
                THEN << [role |-> last_message.role, content |-> last_message.content] >>
                ELSE << >>]

\* ---------------------------------------------------------- routers/chat.py

\* format_updates: one line per field of the mapping, in its order, under the
\* raw field identifier
format_updates(updated_fields) ==
  IF updated_fields = EmptyDict THEN EmptyText
  ELSE << "Updated fields:\n" >>
         \o Join([i \in DOMAIN updated_fields |->
                    << Bullet, updated_fields[i].k, "**: ", PyStr(updated_fields[i].v) >>],
                 "\n")

Acknowledgement == "I've updated the form based on our conversation."

\* str.upper() of the provider selector
UpperProvider(ai_provider) ==
  CASE ai_provider = "openai" -> "OPENAI"
    [] ai_provider = "gemini" -> "GEMINI"
    [] OTHER -> ai_provider

\* a reply without the provider line
PoweredByNothing(ai_provider) == EmptyText

\* the line chat appends to every reply
PoweredBy(ai_provider) ==
  << Separator, "*Powered by ", UpperProvider(ai_provider), "*" >>

\* the loop over data["updates"]: every update is taken as it is
RECURSIVE ChatUpdated(_, _)
ChatUpdated(updates, updated) ==
  IF updates = << >> THEN updated
  ELSE ChatUpdated(Tail(updates),
                   DictSet(updated, Head(updates).field, Head(updates).suggestion))

\* the reply of chat before the provider line, for a result with tool calls
ChatReply(data, content, updated) ==
  LET summary ==
        IF updated # EmptyDict
        THEN << Separator >> \o format_updates(updated) \o << ClosingRule >>
        ELSE EmptyText
  IN IF data.has_reply /\ Strip(data.reply) # EmptyText
     THEN data.reply \o summary
     ELSE IF content # EmptyText /\ Strip(content) # EmptyText
          THEN content \o summary
          ELSE << Acknowledgement, "\n\n" >> \o format_updates(updated)

\* what the handler leaves to the framework when it raises
HttpError ==
  [status |-> 500, reply |-> EmptyText, updated_fields |-> EmptyDict, has_updates |-> FALSE]

\* the ChatResponse of chat for the message ai_msg of the adapter; only the
\* first tool call is read, json.loads and data["updates"] may raise
ChatCompose(ai_msg, ai_provider) ==
  IF ai_msg.tool_calls # << >>
  THEN LET data == ai_msg.tool_calls[1].arguments
       IN IF ~data.parses \/ ~data.has_updates
          THEN HttpError
          ELSE LET updated == ChatUpdated(data.updates, EmptyDict)
               IN [status |-> 200,
                   reply |-> ChatReply(data, ai_msg.content, updated) \o PoweredBy(ai_provider),
                   updated_fields |-> updated,
                   has_updates |-> updated # EmptyDict]
  ELSE [status |-> 200,
        reply |-> ai_msg.content \o PoweredBy(ai_provider),
        updated_fields |-> EmptyDict,
        has_updates |-> FALSE]

\* ------------------------------------- inputs of POST /chat and the backends

\* the conversations a client posts
Histories ==
  { << >>,
    << [role |-> "user", content |-> << "weather was bad" >>] >>,
    << [role |-> "user", content |-> << "hello" >>],
       [role |-> "assistant", content |-> << "Sure." >>],
       [role |-> "user", content |-> << "weather was bad" >>] >> }

\* ai_role of a request: absent, two personas, a name no persona has
RequestRoles == {NoRole, "butler", "coach", "captain"}
Providers == {"openai", "gemini"}

Requests ==
  [messages : Histories, form : Forms, ai_role : RequestRoles, ai_provider : Providers]

\* the update lists the model proposes: none; a sectioned and a standalone
\* field; a field twice, between fields of another section, with a float
\* workload; a null suggestion, an empty identifier and an int workload; a
\* string workload
UpdateLists ==
  { << >>,
    WeatherUpdates,
    << Update("vessel-name", StrVal("Beatrice")), Update("workload", FloatVal(40)),
       Update("imo-number", StrVal("9321483")), Update("vessel-name", StrVal("Beatrice 4")) >>,
    << Update("location", NoneVal), Update("", StrVal("Poor")),
       Update("workload", IntVal(3)) >>,
    << Update("workload", StrVal("high")) >> }

Contents == { EmptyText, << " " >>, << "Sure." >> }
Replies == { EmptyText, << " " >>, << "Noted the weather." >> }

\* arguments that parse and have no "updates" key
ArgsWithoutUpdates(reply) ==
  [parses |-> TRUE, has_reply |-> TRUE, reply |-> reply,
   has_updates |-> FALSE, updates |-> << >>]

\* the tool-call lists of an answer of the chat model
ToolCallLists ==
  { << >> }
    \cup { << ToolCall("call_1", Args(reply, updates)) >> :
             reply \in Replies, updates \in UpdateLists }
    \cup { << ToolCall("call_1", NoArgs) >>,
           << ToolCall("call_1", ArgsWithoutUpdates(<< "Noted the weather." >>)) >>,
           << ToolCall("call_1", Args(<< "Noted the weather." >>, WeatherUpdates)),
              ToolCall("call_2", Args(EmptyText, << Update("workload", StrVal("high")) >>)) >> }

\* the messages resp.choices[0].message of the OpenAI backend
ModelResults == [content : Contents, tool_calls : ToolCallLists]

\* the responses of the Gemini backend: a text and the function calls of the
\* parts of the first candidate, their arguments already a mapping
GeminiResponses ==
  { [text |-> r.content,
     function_calls |-> [i \in DOMAIN r.tool_calls |-> r.tool_calls[i].arguments]] :
      r \in { m \in ModelResults :
                \A i \in DOMAIN m.tool_calls : m.tool_calls[i].arguments.parses } }

\* gemini_service.convert_gemini_response_to_openai_format: the text, and the
\* first function call as the only tool call, with neither id nor name
convert_gemini_response_to_openai_format(gemini_response) ==
  [content |-> gemini_response.text,
   tool_calls |->
     IF gemini_response.function_calls = << >> THEN << >>
     ELSE << [id |-> "", name |-> "", arguments |-> gemini_response.function_calls[1]] >>]

\* the types of client messages handle_client_message names
KnownTypes == {"audio_chunk", "audio_end", "text_message", "form_update", "role_change"}
\* a type it does not name
OtherType == "ping"

\* ------------------------------------------------------------------- state

VARIABLES
  pc,                   \* where each websocket's endpoint coroutine is
  cid,                  \* the client_id of each websocket's URL
  inbox,                \* the messages a websocket has received and not yet read
  cur,                  \* the locals of the turn a websocket's handler is in
  active_connections,   \* VoiceWebSocketManager.active_connections
  connection_configs,   \* VoiceWebSocketManager.connection_configs
  openai_api_key,       \* VoiceService.openai_api_key is set
  is_connected,         \* VoiceService.is_connected
  current_ai_role,      \* VoiceService.current_ai_role
  conversation_history, \* VoiceService.conversation_history
  form_context,         \* VoiceService.form_context
  callbacks,            \* the client_id the four on_* lambdas captured
  tasks,                \* the tasks asyncio.create_task made, not yet run
  sent,                 \* the events each websocket was sent, in order
  nArrived,             \* messages arrived so far
  nTurns,               \* turns started so far
  turns,                \* history: the finished turns
  disconnects,          \* history: the calls of VoiceWebSocketManager.disconnect
  lastWrite,            \* history: the last context a handler pushed to the service
  inflight,             \* history: handlers of a websocket started and not finished
  startedSeq,           \* history: the message numbers in the order their handling began
  req,                  \* the request POST /chat or POST /initialize is handling
  hpc,                  \* where the HTTP handler is
  invocation,           \* what the adapter sent to its backend
  ai_msg,               \* the message the adapter returned to chat
  http_response,        \* the response, or the error, the client gets
  voice_result          \* what the voice pipeline composes for the same message

connVars == << pc, cid, inbox, cur >>
mgrVars == << active_connections, connection_configs >>
svcVars == << is_connected, current_ai_role, conversation_history, form_context, callbacks >>
histVars == << nTurns, turns, disconnects, lastWrite, inflight, startedSeq >>
httpVars == << req, hpc, invocation, ai_msg, http_response, voice_result >>
vars == << pc, cid, inbox, cur, active_connections, connection_configs, openai_api_key,
           is_connected, current_ai_role, conversation_history, form_context, callbacks,
           tasks, sent, nArrived, nTurns, turns, disconnects, lastWrite, inflight,
           startedSeq, req, hpc, invocation, ai_msg, http_response, voice_result >>

NoConfig == [ai_role |-> NoRole, form_data |-> EmptyDict]
NoCall == [made |-> FALSE, messages |-> << >>, form |-> EmptyDict, ai_role |-> NoRole,
           lastWrite |-> [role |-> NoRole, form |-> EmptyDict, by |-> NoConn],
           gone |-> {}, connected |-> FALSE]
NoResult == [text |-> EmptyText, function_calls |-> << >>]
NoTurn ==
  [id |-> 0, by |-> NoConn, kind |-> "none", n |-> 0, heard |-> EmptyText,
   stt |-> "none", chat |-> "none", tts |-> "none",
   nChat |-> 0, nTts |-> 0, nAppend |-> 0, nErr |-> 0, call |-> NoCall,
   user_text |-> EmptyText, chat_response |-> NoResult,
   complete_text |-> EmptyText, audio |-> NoAudio]

\* the websockets that are accepted and not yet disconnected
Open == { w \in Conns : pc[w] \notin {"new", "closed"} }

\* the manager and the service after construction
VoiceInit ==
  /\ pc = [w \in Conns |-> "new"]
  /\ cid = [w \in Conns |-> NoClient]
  /\ inbox = [w \in Conns |-> << >>]
  /\ cur = [w \in Conns |-> NoTurn]
  /\ active_connections = [c \in ClientIds |-> NoConn]
  /\ connection_configs = [c \in ClientIds |-> NoConfig]
  /\ openai_api_key \in BOOLEAN
  /\ is_connected = FALSE
  /\ current_ai_role = "co-worker"
  /\ conversation_history = << >>
  /\ form_context = EmptyDict
  /\ callbacks = NoClient
  /\ tasks = << >>
  /\ sent = [w \in Conns |-> << >>]
  /\ nArrived = 0
  /\ nTurns = 0
  /\ turns = << >>
  /\ disconnects = << >>
  /\ lastWrite = [role |-> "co-worker", form |-> EmptyDict, by |-> NoConn]
  /\ inflight = [w \in Conns |-> 0]
  /\ startedSeq = [w \in Conns |-> << >>]

NoRequest == [messages |-> << >>, form |-> EmptyDict, ai_role |-> NoRole, ai_provider |-> ""]
NoInvocation == [backend |-> "", instructions |-> << >>, turns |-> << >>]
NoMessage == [content |-> EmptyText, tool_calls |-> << >>]
NoResponse ==
  [status |-> 0, reply |-> EmptyText, updated_fields |-> EmptyDict, has_updates |-> FALSE]
NoVoiceResult ==
  [made |-> FALSE, text |-> EmptyText, spoken |-> EmptyText,
   updated_fields |-> EmptyDict, function_calls |-> << >>]

\* no POST /chat request is being handled
HttpIdle ==
  /\ req = NoRequest
  /\ hpc = "none"
  /\ invocation = NoInvocation
  /\ ai_msg = NoMessage
  /\ http_response = NoResponse
  /\ voice_result = NoVoiceResult

Init == VoiceInit /\ HttpIdle

\* ------------------------------------------------------- events and tasks

Event(type, via, turn, by, body) ==
  [type |-> type, via |-> via, turn |-> turn, by |-> by, body |-> body]

\* a task a callback lambda made: _send_*_to_client or _handle_function_call
\* for the client_id the lambda captured
Task(type, client_id, turn, by, body) ==
  [type |-> type, client_id |-> client_id, turn |-> turn, by |-> by, body |-> body]

\* VoiceWebSocketManager._send_to_client on the log s of sent events
SendToClient(s, client_id, ev) ==
  IF active_connections[client_id] = NoConn THEN s
  ELSE LET websocket == active_connections[client_id]
       IN IF pc[websocket] \in {"new", "closed"} THEN s
          ELSE [s EXCEPT ![websocket] = Append(@, ev)]

\* what a callback of the service does: nothing when it is not bound
CallbackTask(type, turn, by, body) ==
  IF callbacks = NoClient THEN << >>
  ELSE << Task(type, callbacks, turn, by, body) >>

\* ------------------------------------------------ VoiceWebSocketManager

DefaultRole == "co-worker"

\* _update_ai_context(client_id) on the registry configs
UpdateAiContext(configs, client_id) ==
  IF configs[client_id] = NoConfig
  THEN UNCHANGED << current_ai_role, form_context >>
  ELSE /\ current_ai_role' = configs[client_id].ai_role
       /\ form_context' = configs[client_id].form_data

\* Websockets and client ids are interchangeable: the first connection of a
\* run is ws1 with client id "a", and ws2 connects after ws1.
FirstUnused(w, client_id) ==
  /\ w = "ws1" => client_id = "a"
  /\ w = "ws2" => pc["ws1"] # "new"

\* voice_websocket_endpoint calls ws_manager.connect(websocket, client_id):
\* accept, register, bind the four callbacks, voice_service.connect(), and
\* either push the context or send the error
Connect(w, client_id) ==
  /\ pc[w] = "new"
  /\ FirstUnused(w, client_id)
  /\ tasks = << >>
  /\ pc' = [pc EXCEPT ![w] = "idle"]
  /\ cid' = [cid EXCEPT ![w] = client_id]
  /\ active_connections' = [active_connections EXCEPT ![client_id] = w]
  /\ connection_configs' =
       [connection_configs EXCEPT
          ![client_id] = [ai_role |-> DefaultRole, form_data |-> EmptyDict]]
  /\ callbacks' = client_id
  /\ IF openai_api_key
     THEN /\ is_connected' = TRUE
          /\ UpdateAiContext(connection_configs', client_id)
          /\ lastWrite' = [role |-> DefaultRole, form |-> EmptyDict, by |-> w]
          /\ UNCHANGED << tasks, sent >>
     ELSE /\ is_connected' = FALSE
          /\ tasks' = << Task("error", client_id, 0, w,
                              << "Service initialization failed" >>) >>
          /\ sent' = [sent EXCEPT ![w] =
                        Append(@, Event("error", "connect", 0, w,
                                        << "Failed to initialize voice service" >>))]
          /\ UNCHANGED << current_ai_role, form_context, lastWrite >>
  /\ UNCHANGED << inbox, cur, openai_api_key, httpVars, conversation_history, nArrived,
                  nTurns, turns, disconnects, inflight, startedSeq >>

\* an endpoint that reads the next message while a handling is still awaited
ReceiveReadyConcurrent(w) == w \in Open

\* the endpoint is in websocket.receive_text(): the handling of the last
\* message it read has returned
ReceiveReady(w) == pc[w] = "idle"

\* the registry after disconnect(client_id)
Unregister(registry, client_id, nothing) == [registry EXCEPT ![client_id] = nothing]

\* disconnect tears the service down when no registration is left
TearsDown(active) == \A c \in ClientIds : active[c] = NoConn

\* receive_text raises WebSocketDisconnect; the endpoint's finally calls
\* ws_manager.disconnect(client_id)
Disconnect(w) ==
  /\ ReceiveReady(w)
  /\ inbox[w] = << >>
  /\ tasks = << >>
  /\ pc' = [pc EXCEPT ![w] = "closed"]
  /\ active_connections' = Unregister(active_connections, cid[w], NoConn)
  /\ connection_configs' = Unregister(connection_configs, cid[w], NoConfig)
  /\ IF TearsDown(active_connections')
     THEN /\ is_connected' = FALSE
          /\ conversation_history' = << >>
     ELSE UNCHANGED << is_connected, conversation_history >>
  /\ disconnects' = Append(disconnects,
       [by |-> w, open |-> Open \ {w}, teardown |-> TearsDown(active_connections'),
        was_connected |-> is_connected])
  /\ UNCHANGED << cid, inbox, cur, openai_api_key, httpVars, current_ai_role, form_context,
                  callbacks, tasks, sent, nArrived, nTurns, turns, lastWrite,
                  inflight, startedSeq >>

\* a client sends a message on its open websocket; the frame waits in the
\* socket until the endpoint reads it, and inbox holds its number in order of
\* arrival and whether the handler was busy then (what it says is drawn when
\* it is read and parsed)
Arrive(w) ==
  /\ w \in Open
  /\ nArrived < MaxMsgs
  /\ Len(inbox[w]) < MaxInbox
  /\ nArrived' = nArrived + 1
  /\ inbox' = [inbox EXCEPT ![w] = Append(@, [n |-> nArrived + 1, late |-> ~ReceiveReady(w)])]
  /\ UNCHANGED << pc, cid, cur, mgrVars, openai_api_key, httpVars, svcVars, tasks, sent, histVars >>

\* the endpoint reads the next message and calls handle_client_message
Reads(w) ==
  /\ ReceiveReady(w)
  /\ w \in Open
  /\ tasks = << >>
  /\ inbox[w] # << >>
  /\ inbox' = [inbox EXCEPT ![w] = Tail(@)]
  /\ startedSeq' = [startedSeq EXCEPT
                      ![w] = Append(@, [n |-> Head(inbox[w]).n, late |-> Head(inbox[w]).late,
                                      busy |-> inflight[w]])]

\* the number of the message Reads hands to handle_client_message
NextMsg(w) == Head(inbox[w]).n

\* message_type == "audio_chunk": logged only
HandleAudioChunk(w) ==
  /\ Reads(w)
  /\ UNCHANGED << pc, cid, cur, mgrVars, openai_api_key, httpVars, svcVars, tasks, sent,
                  nArrived, nTurns, turns, disconnects, lastWrite, inflight >>

\* message_type == "audio_end": logged only
HandleAudioEnd(w) ==
  /\ Reads(w)
  /\ UNCHANGED << pc, cid, cur, mgrVars, openai_api_key, httpVars, svcVars, tasks, sent,
                  nArrived, nTurns, turns, disconnects, lastWrite, inflight >>

\* the else branch: an unknown message type, logged only
HandleUnknown(w) ==
  /\ Reads(w)
  /\ OtherType \notin KnownTypes
  /\ UNCHANGED << pc, cid, cur, mgrVars, openai_api_key, httpVars, svcVars, tasks, sent,
                  nArrived, nTurns, turns, disconnects, lastWrite, inflight >>

\* the KeyError of connection_configs[client_id] leaves handle_client_message;
\* the endpoint's except Exception sends it to its own websocket
ServerError(w) ==
  [sent EXCEPT ![w] = Append(@, Event("error", "endpoint", 0, w,
                                      << "Server error: ", cid[w] >>))]

\* message_type == "form_update"
HandleFormUpdate(w, form_data) ==
  /\ Reads(w)
  /\ IF connection_configs[cid[w]] = NoConfig
     THEN /\ sent' = ServerError(w)
          /\ UNCHANGED << connection_configs, current_ai_role, form_context, lastWrite >>
     ELSE /\ connection_configs' =
               [connection_configs EXCEPT ![cid[w]].form_data = form_data]
          /\ UpdateAiContext(connection_configs', cid[w])
          /\ lastWrite' = [role |-> connection_configs[cid[w]].ai_role,
                           form |-> form_data, by |-> w]
          /\ UNCHANGED sent
  /\ UNCHANGED << pc, cid, cur, active_connections, openai_api_key, httpVars, is_connected,
                  conversation_history, callbacks, tasks, nArrived, nTurns, turns,
                  disconnects, inflight >>

\* message_type == "role_change"
HandleRoleChange(w, ai_role) ==
  /\ Reads(w)
  /\ IF connection_configs[cid[w]] = NoConfig
     THEN /\ sent' = ServerError(w)
          /\ UNCHANGED << connection_configs, current_ai_role, form_context, lastWrite >>
     ELSE /\ connection_configs' =
               [connection_configs EXCEPT ![cid[w]].ai_role = ai_role]
          /\ UpdateAiContext(connection_configs', cid[w])
          /\ lastWrite' = [role |-> ai_role,
                           form |-> connection_configs[cid[w]].form_data, by |-> w]
          /\ UNCHANGED sent
  /\ UNCHANGED << pc, cid, cur, active_connections, openai_api_key, httpVars, is_connected,
                  conversation_history, callbacks, tasks, nArrived, nTurns, turns,
                  disconnects, inflight >>

\* one task: _send_audio_to_client, _send_transcript_to_client,
\* _send_error_to_client or _handle_function_call, on the pair st of the sent
\* events and the registry's configs
RunOne(st, t) ==
  [sent |-> SendToClient(st.sent, t.client_id,
                         Event(t.type, "callback", t.turn, t.by, t.body)),
   configs |->
     IF t.type = "function_call" /\ st.configs[t.client_id] # NoConfig
     THEN [st.configs EXCEPT ![t.client_id].form_data = ApplyUpdates(t.body.updates, @)]
     ELSE st.configs]

RECURSIVE RunAll(_, _)
RunAll(st, ts) == IF ts = << >> THEN st ELSE RunAll(RunOne(st, Head(ts)), Tail(ts))

\* the event loop runs the tasks that are ready, oldest first, before it
\* handles another I/O event
RunTasks ==
  /\ tasks # << >>
  /\ LET st == RunAll([sent |-> sent, configs |-> connection_configs], tasks)
     IN /\ sent' = st.sent
        /\ connection_configs' = st.configs
  /\ tasks' = << >>
  /\ UNCHANGED << connVars, active_connections, openai_api_key, httpVars, svcVars, nArrived, histVars >>

\* ----------------------------------------------------------- a voice turn

Closed == { w \in Conns : pc[w] = "closed" }

\* a chat call that takes the persona and form of the sender's own cached
\* configuration instead of the fields of the shared service
ChatCallOwnContext(w, history) ==
  LET config == connection_configs[cid[w]]
  IN [made |-> TRUE, messages |-> history,
      form |-> IF config = NoConfig THEN form_context ELSE config.form_data,
      ai_role |-> IF config = NoConfig THEN current_ai_role ELSE config.ai_role,
      lastWrite |-> lastWrite, gone |-> Closed, connected |-> is_connected]

\* the arguments generate_chat_response passes to chat_completion: the copy of
\* the history, self.form_context and self.current_ai_role
ChatCall(w, history) ==
  [made |-> TRUE, messages |-> history, form |-> form_context,
   ai_role |-> current_ai_role, lastWrite |-> lastWrite, gone |-> Closed,
   connected |-> is_connected]

UserTurn(w, text) == [role |-> "user", content |-> text, by |-> w]
AssistantTurn(w, text) == [role |-> "assistant", content |-> text, by |-> w]

NewTurn(w, kind) ==
  [NoTurn EXCEPT !.id = nTurns + 1, !.by = w, !.kind = kind, !.n = NextMsg(w)]

\* generate_chat_response up to its await of chat_completion
BeginChat(w, t, user_text) ==
  /\ conversation_history' = Append(conversation_history, UserTurn(w, user_text))
  /\ cur' = [cur EXCEPT ![w] =
       [t EXCEPT !.user_text = user_text, !.nAppend = @ + 1, !.nChat = @ + 1,
                 !.call = ChatCall(w, conversation_history')]]
  /\ pc' = [pc EXCEPT ![w] = "chat"]

\* the callbacks process_*_message calls at its end, in the order it calls them
Emit(t, audio) ==
  (IF callbacks = NoClient THEN << >>
   ELSE [i \in DOMAIN t.chat_response.function_calls |->
           Task("function_call", callbacks, t.id, t.by,
                StripReply(t.chat_response.function_calls[i]))])
  \o (IF t.complete_text # EmptyText
      THEN CallbackTask("transcript", t.id, t.by, << AiTextTag >> \o t.complete_text)
      ELSE << >>)
  \o (IF audio # NoAudio THEN CallbackTask("audio_chunk", t.id, t.by, audio) ELSE << >>)

\* handle_client_message after process_*_message returned: response.get("audio")
DirectAudio(w, t, audio) ==
  IF audio # NoAudio
  THEN SendToClient(sent, cid[w], Event("audio_chunk", "handler", t.id, t.by, audio))
  ELSE sent

\* process_*_message returns and handle_client_message with it
FinishTurn(w, t, audio, pending) ==
  /\ tasks' = pending \o Emit(t, audio)
  /\ sent' = DirectAudio(w, t, audio)
  /\ turns' = Append(turns, [t EXCEPT !.audio = audio])
  /\ cur' = [cur EXCEPT ![w] = NoTurn]
  /\ pc' = [pc EXCEPT ![w] = "idle"]
  /\ inflight' = [inflight EXCEPT ![w] = @ - 1]

\* process_audio_message returns the empty result before the chat stage
FinishEmpty(w, t, pending) ==
  /\ tasks' = pending
  /\ turns' = Append(turns, t)
  /\ cur' = [cur EXCEPT ![w] = NoTurn]
  /\ pc' = [pc EXCEPT ![w] = "idle"]
  /\ inflight' = [inflight EXCEPT ![w] = @ - 1]
  /\ UNCHANGED sent

\* message_type == "text_message", a regular text: process_text_message
HandleTextMessage(w, text) ==
  /\ Reads(w)
  /\ BeginChat(w, NewTurn(w, "text"), text)
  /\ nTurns' = nTurns + 1
  /\ inflight' = [inflight EXCEPT ![w] = @ + 1]
  /\ UNCHANGED << cid, mgrVars, openai_api_key, httpVars, is_connected, current_ai_role,
                  form_context, callbacks, tasks, sent, nArrived, turns,
                  disconnects, lastWrite >>

\* message_type == "text_message" with the audio marker: base64.b64decode,
\* then process_audio_message up to its await of the transcription
HandleBatchAudio(w, b64ok) ==
  /\ Reads(w)
  /\ IF b64ok
     THEN /\ cur' = [cur EXCEPT ![w] = NewTurn(w, "audio")]
          /\ pc' = [pc EXCEPT ![w] = "stt"]
          /\ nTurns' = nTurns + 1
          /\ inflight' = [inflight EXCEPT ![w] = @ + 1]
     ELSE UNCHANGED << cur, pc, nTurns, inflight >>
  /\ UNCHANGED << cid, mgrVars, openai_api_key, httpVars, svcVars, tasks, sent, nArrived,
                  turns, disconnects, lastWrite >>

\* the OpenAI API rejects every request made without a key
ApiAnswers == openai_api_key

\* the transcription API answers
SttReturn(w, transcript) ==
  /\ pc[w] = "stt"
  /\ ApiAnswers
  /\ tasks = << >>
  /\ LET user_text == ValidateTranscript(transcript)
         t == [cur[w] EXCEPT !.heard = transcript, !.stt = "ok"]
     IN IF user_text = EmptyText
        THEN /\ FinishEmpty(w, t, << >>)
             /\ UNCHANGED conversation_history
        ELSE /\ tasks' = CallbackTask("transcript", t.id, w, user_text)
             /\ BeginChat(w, t, user_text)
             /\ UNCHANGED << sent, turns, inflight >>
  /\ UNCHANGED << cid, inbox, mgrVars, openai_api_key, httpVars, is_connected, current_ai_role,
                  form_context, callbacks, nArrived, nTurns, disconnects, lastWrite,
                  startedSeq >>

\* the transcription API raises: on_error, transcribe_audio returns ""
SttRaise(w) ==
  /\ pc[w] = "stt"
  /\ tasks = << >>
  /\ FinishEmpty(w, [cur[w] EXCEPT !.stt = "raised", !.nErr = @ + 1],
                 CallbackTask("error", cur[w].id, w, << "transcription failed" >>))
  /\ UNCHANGED << cid, inbox, mgrVars, openai_api_key, httpVars, svcVars, nArrived, nTurns,
                  disconnects, lastWrite, startedSeq >>

\* after generate_chat_response: the display text, then speech for a reply
AfterChat(w, t, pending) ==
  LET t2 == [t EXCEPT !.complete_text = CompleteText(t.chat_response)]
  IN IF t2.chat_response.text # EmptyText
     THEN /\ cur' = [cur EXCEPT ![w] = [t2 EXCEPT !.nTts = @ + 1]]
          /\ pc' = [pc EXCEPT ![w] = "tts"]
          /\ tasks' = pending
          /\ UNCHANGED << sent, turns, inflight >>
     ELSE FinishTurn(w, t2, NoAudio, pending)

\* chat_completion answers
ChatReturn(w, response) ==
  /\ pc[w] = "chat"
  /\ ApiAnswers
  /\ tasks = << >>
  /\ LET result == ChatResult(response)
     IN /\ conversation_history' =
             Append(conversation_history, AssistantTurn(w, result.text))
        /\ AfterChat(w, [cur[w] EXCEPT !.chat = "ok", !.chat_response = result,
                                       !.nAppend = @ + 1], << >>)
  /\ UNCHANGED << cid, inbox, mgrVars, openai_api_key, httpVars, is_connected, current_ai_role,
                  form_context, callbacks, nArrived, nTurns, disconnects, lastWrite,
                  startedSeq >>

\* a chat completion that is called again when it raises
ChatRaiseRetries(w) ==
  /\ pc[w] = "chat"
  /\ tasks = << >>
  /\ cur[w].nChat < 2
  /\ cur' = [cur EXCEPT ![w] = [@ EXCEPT !.nChat = @ + 1]]
  /\ UNCHANGED << cid, inbox, mgrVars, openai_api_key, httpVars, svcVars, nArrived, nTurns,
                  disconnects, lastWrite, startedSeq, pc, tasks, sent, turns, inflight >>

\* chat_completion raises: on_error, the apology is the reply
ChatRaise(w) ==
  /\ pc[w] = "chat"
  /\ tasks = << >>
  /\ AfterChat(w, [cur[w] EXCEPT !.chat = "raised", !.chat_response = ChatFailure,
                                 !.nErr = @ + 1],
               CallbackTask("error", cur[w].id, w, << "chat completion failed" >>))
  /\ UNCHANGED << cid, inbox, mgrVars, openai_api_key, httpVars, svcVars, nArrived, nTurns,
                  disconnects, lastWrite, startedSeq >>

\* the speech API answers
TtsReturn(w) ==
  /\ pc[w] = "tts"
  /\ ApiAnswers
  /\ tasks = << >>
  /\ FinishTurn(w, [cur[w] EXCEPT !.tts = "ok"], Speech(cur[w].chat_response.text), << >>)
  /\ UNCHANGED << cid, inbox, mgrVars, openai_api_key, httpVars, svcVars, nArrived, nTurns,
                  disconnects, lastWrite, startedSeq >>

\* the speech API raises: on_error, synthesize_speech returns b""
TtsRaise(w) ==
  /\ pc[w] = "tts"
  /\ tasks = << >>
  /\ FinishTurn(w, [cur[w] EXCEPT !.tts = "raised", !.nErr = @ + 1], NoAudio,
                CallbackTask("error", cur[w].id, w, << "speech synthesis failed" >>))
  /\ UNCHANGED << cid, inbox, mgrVars, openai_api_key, httpVars, svcVars, nArrived, nTurns,
                  disconnects, lastWrite, startedSeq >>

\* ------------------------------------------------------------ specification

Next ==
  \/ \E w \in Conns, c \in ClientIds : Connect(w, c)
  \/ \E w \in Conns : Disconnect(w)
  \/ \E w \in Conns : Arrive(w)
  \/ \E w \in Conns : HandleAudioChunk(w)
  \/ \E w \in Conns : HandleAudioEnd(w)
  \/ \E w \in Conns : HandleUnknown(w)
  \/ \E w \in Conns, f \in Forms : HandleFormUpdate(w, f)
  \/ \E w \in Conns, r \in Roles : HandleRoleChange(w, r)
  \/ \E w \in Conns, t \in UserTexts : HandleTextMessage(w, t)
  \/ \E w \in Conns, ok \in BOOLEAN : HandleBatchAudio(w, ok)
  \/ \E w \in Conns, h \in Transcripts : SttReturn(w, h)
  \/ \E w \in Conns : SttRaise(w)
  \/ \E w \in Conns, r \in Responses : ChatReturn(w, r)
  \/ \E w \in Conns : ChatRaise(w)
  \/ \E w \in Conns : TtsReturn(w)
  \/ \E w \in Conns : TtsRaise(w)
  \/ RunTasks

Spec == Init /\ [][Next]_vars

\* --------------------------------------------------------------- POST /chat

voiceVars ==
  << connVars, mgrVars, openai_api_key, svcVars, tasks, sent, nArrived, histVars >>

\* a request has arrived at chat
ComposeInit ==
  /\ VoiceInit
  /\ req \in Requests
  /\ hpc = "received"
  /\ invocation = NoInvocation
  /\ ai_msg = NoMessage
  /\ http_response = NoResponse
  /\ voice_result = NoVoiceResult

\* chat calls the adapter of the chosen provider, which assembles what it sends
CallAdapter ==
  /\ hpc = "received"
  /\ LET ai_role == IF req.ai_role = NoRole THEN "co-worker" ELSE req.ai_role
         is_first_message == req.messages = << >>
     IN invocation' =
          IF req.ai_provider = "gemini"
          THEN GeminiInvocation(req.messages, req.form, is_first_message, ai_role)
          ELSE OpenAIInvocation(req.messages, req.form, is_first_message, ai_role)
  /\ hpc' = "awaiting"
  /\ UNCHANGED << voiceVars, req, ai_msg, http_response, voice_result >>

\* the OpenAI backend answers and openai_service.chat_completion returns
\* resp.choices[0].message
OpenAIReturns(result) ==
  /\ hpc = "awaiting" /\ invocation.backend = "openai"
  /\ ai_msg' = result
  /\ hpc' = "composing"
  /\ UNCHANGED << voiceVars, req, invocation, http_response, voice_result >>

\* the Gemini backend answers and gemini_service.chat_completion returns the
\* converted response
GeminiReturns(gemini_response) ==
  /\ hpc = "awaiting" /\ invocation.backend = "gemini"
  /\ ai_msg' = convert_gemini_response_to_openai_format(gemini_response)
  /\ hpc' = "composing"
  /\ UNCHANGED << voiceVars, req, invocation, http_response, voice_result >>

\* the backend call raises: neither adapter nor chat has an except clause
AdapterRaises ==
  /\ hpc = "awaiting"
  /\ http_response' = HttpError
  /\ hpc' = "failed"
  /\ UNCHANGED << voiceVars, req, invocation, ai_msg, voice_result >>

\* chat composes its ChatResponse from the adapter's message
ChatResponds ==
  /\ hpc = "composing"
  /\ http_response' = ChatCompose(ai_msg, req.ai_provider)
  /\ hpc' = "done"
  /\ UNCHANGED << voiceVars, req, invocation, ai_msg, voice_result >>

\* what generate_chat_response and process_text_message make of a message of
\* the OpenAI adapter: the reply given to speech synthesis, the mapping of the
\* summary, the complete text
VoiceCompose(response) ==
  LET chat_response == ChatResult(response)
  IN [made |-> TRUE,
      text |-> CompleteText(chat_response),
      spoken |-> chat_response.text,
      updated_fields |-> CollectUpdatedFields(chat_response.function_calls, EmptyDict),
      function_calls |-> chat_response.function_calls]

\* the voice pipeline composes the same message of the OpenAI adapter
VoiceComposes ==
  /\ hpc \in {"composing", "done"} /\ invocation.backend = "openai"
  /\ ~voice_result.made
  /\ voice_result' = VoiceCompose(ai_msg)
  /\ UNCHANGED << voiceVars, req, hpc, invocation, ai_msg, http_response >>

ComposeNext ==
  \/ CallAdapter
  \/ \E result \in ModelResults : OpenAIReturns(result)
  \/ \E gemini_response \in GeminiResponses : GeminiReturns(gemini_response)
  \/ AdapterRaises
  \/ ChatResponds
  \/ VoiceComposes

ComposeSpec == ComposeInit /\ [][ComposeNext]_vars

\* --------------------------------------------------------- POST /initialize

\* InitializeRequest: ai_role is any string, ai_provider selects the service
InitializeRequests == [ai_role : Personas \cup {"captain"}, ai_provider : Providers]

PopulateInstruction ==
  [tag |-> "populate",
   text |-> "Please use the suggest_fields function to fill in all the fixed fields with the default values shown in the form description. Even if the fields have default values, you MUST call suggest_fields to populate them.",
   form |-> EmptyDict]

\* what gemini_service.initialize_form sends: the chat starts with an empty
\* history and send_message_async gets messages[-1], the instruction
GeminiInitializeInvocation(ai_role) ==
  LET messages == << PersonaPart(ai_role), PopulateInstruction >>
  IN [backend |-> "gemini", instructions |-> << messages[Len(messages)] >>, turns |-> << >>]

\* openai_service has no initialize_form; as the spec describes it, the
\* pipeline of /chat seeded with the instruction to populate the fields
OpenAIInitializeInvocation(ai_role) ==
  [backend |-> "openai", instructions |-> << PersonaPart(ai_role), PopulateInstruction >>,
   turns |-> << >>]

all_possible_fields ==
  << "report-number", "report-date", "observation-time", "location",
     "vessel-name", "imo-number", "vessel-type", "pilot-id",
     "hazards-description", "visibility", "sea-state", "wind-conditions",
     "incident-details", "pilotage-comments", "improvements",
     "workload", "stress-feedback", "submitted-by", "submission-date" >>

\* unfilled_sections_text: one line naming the fields not in updated, or none
UnfilledSectionsText(updated) ==
  LET unfilled_fields == SelectSeq(all_possible_fields, LAMBDA f : f \notin DictKeys(updated))
  IN IF unfilled_fields = << >> THEN << >>
     ELSE << << "Fields to complete: " >>
               \o Join([i \in DOMAIN unfilled_fields |-> << unfilled_fields[i] >>], ", ") >>

\* "\n".join of the bulleted lines
BulletedLines(texts) ==
  Join([i \in DOMAIN texts |-> << "(bullet) " >> \o texts[i]], "\n")

welcome_msg_1(ai_role) ==
  CASE ai_role = "butler" ->
         << "Hey Jake! I've auto-filled your Maritime Pilot Report with all the standard info to save you time.\n\n" >>
    [] ai_role = "coach" ->
         << "Hello Jake. I'm here to support you as you reflect on this pilotage experience and complete your Maritime Pilot Report.\n\n" >>
    [] OTHER ->
         << "Hey Jake. I've finished my task and I'm ready to start filling the Maritime Pilot Report now.\n\n" >>

\* the second reply: the coach's names no field that is still to be filled
welcome_msg_2(ai_role, updated) ==
  CASE ai_role = "butler" ->
         << "Here's what I've completed:\n\n" >> \o format_updates(updated)
           \o << "\n\n", "\n\nI just need quick input on these remaining items:\n" >>
           \o BulletedLines(UnfilledSectionsText(updated))
           \o << "\n\nJust give me the basics and I'll auto-suggest the rest!" >>
    [] ai_role = "coach" ->
         << "I've gathered some of the basic information we know:\n\n" >>
           \o format_updates(updated)
           \o << "\n\n", "(the coach's invitation to reflect)",
                 "What would you like to share about this experience?" >>
    [] OTHER ->
         << "I've filled all the information I know here.\n\n" >> \o format_updates(updated)
           \o << "\n\n", "\n\n Once you're available, could you check these following fields? \n" >>
           \o BulletedLines(UnfilledSectionsText(updated))
           \o << "\n\n" >>

\* ChatResponse(reply=..., updated_fields=...); an updated_fields left out is
\* None and shown here as the empty mapping
InitReply(reply, updated_fields) ==
  [reply |-> reply, updated_fields |-> updated_fields, has_updates |-> FALSE]

InitializeError == [status |-> 500, replies |-> << >>]
NoInitializeResponse == [status |-> 0, replies |-> << >>]

\* the list initialize returns for the message init_msg of initialize_form;
\* json.loads and data["updates"] may raise
InitializeCompose(init_msg, r) ==
  IF init_msg.tool_calls # << >>
  THEN LET data == init_msg.tool_calls[1].arguments
       IN IF ~data.parses \/ ~data.has_updates
          THEN InitializeError
          ELSE LET updated == ChatUpdated(data.updates, EmptyDict)
               IN [status |-> 200,
                   replies |->
                     << InitReply(welcome_msg_1(r.ai_role), EmptyDict),
                        InitReply(welcome_msg_2(r.ai_role, updated) \o PoweredBy(r.ai_provider),
                                  updated) >>]
  ELSE [status |-> 200,
        replies |-> << InitReply(<< "Ready to start filling the form." >>, EmptyDict) >>]

\* a request has arrived at initialize
InitializeInit ==
  /\ VoiceInit
  /\ req \in InitializeRequests
  /\ hpc = "received"
  /\ invocation = NoInvocation
  /\ ai_msg = NoMessage
  /\ http_response = NoInitializeResponse
  /\ voice_result = NoVoiceResult

\* initialize calls initialize_form of the chosen provider
CallInitializeForm ==
  /\ hpc = "received"
  /\ invocation' =
       IF req.ai_provider = "gemini"
       THEN GeminiInitializeInvocation(req.ai_role)
       ELSE OpenAIInitializeInvocation(req.ai_role)
  /\ hpc' = "awaiting"
  /\ UNCHANGED << voiceVars, req, ai_msg, http_response, voice_result >>

\* the Gemini backend answers and initialize_form returns the converted response
GeminiInitializeReturns(gemini_response) ==
  /\ hpc = "awaiting" /\ invocation.backend = "gemini"
  /\ ai_msg' = convert_gemini_response_to_openai_format(gemini_response)
  /\ hpc' = "composing"
  /\ UNCHANGED << voiceVars, req, invocation, http_response, voice_result >>

\* the OpenAI backend answers
OpenAIInitializeReturns(result) ==
  /\ hpc = "awaiting" /\ invocation.backend = "openai"
  /\ ai_msg' = result
  /\ hpc' = "composing"
  /\ UNCHANGED << voiceVars, req, invocation, http_response, voice_result >>

\* the backend call raises: neither initialize_form nor initialize catches it
InitializeRaises ==
  /\ hpc = "awaiting"
  /\ http_response' = InitializeError
  /\ hpc' = "failed"
  /\ UNCHANGED << voiceVars, req, invocation, ai_msg, voice_result >>

\* initialize composes its list of replies
InitializeResponds ==
  /\ hpc = "composing"
  /\ http_response' = InitializeCompose(ai_msg, req)
  /\ hpc' = "done"
  /\ UNCHANGED << voiceVars, req, invocation, ai_msg, voice_result >>

InitializeNext ==
  \/ CallInitializeForm
  \/ \E gemini_response \in GeminiResponses : GeminiInitializeReturns(gemini_response)
  \/ \E result \in ModelResults : OpenAIInitializeReturns(result)
  \/ InitializeRaises
  \/ InitializeResponds

InitializeSpec == InitializeInit /\ [][InitializeNext]_vars

\* ------------------------------------------------------------------ claims

FinishedTurns == { turns[i] : i \in DOMAIN turns }
RunningTurns == { cur[w] : w \in { x \in Conns : cur[x] # NoTurn } }
AllTurns == FinishedTurns \cup RunningTurns

\* the events of turn id a websocket was sent, in the order it was sent them
EventsOfTurn(w, id) == SelectSeq(sent[w], LAMBDA e : e.turn = id)
\* the events of a turn sent to any websocket or still to be sent
TurnHasEvents(id) ==
  \/ \E w \in Conns : EventsOfTurn(w, id) # << >>
  \/ \E i \in DOMAIN tasks : tasks[i].turn = id

\* C1: the service is torn down only by the disconnect that closes the last
\* open connection, once, and stays initialized while a connection is open.
C1_TornDownOnlyByLastClose ==
  /\ \A i \in DOMAIN disconnects :
       disconnects[i].teardown <=> disconnects[i].open = {}
  /\ (openai_api_key /\ Open # {}) => is_connected

\* C2: every event produced while processing a message of a connection is
\* delivered to that connection and to no other.
C2_EventsReachOnlyTheOriginator ==
  \A w \in Conns : \A i \in DOMAIN sent[w] :
    sent[w][i].turn # 0 => sent[w][i].by = w

\* the stage of the pipeline an event of a turn belongs to
Stage(e) ==
  CASE e.type = "function_call" -> 1
    [] e.type = "transcript" /\ Head(e.body) = AiTextTag -> 2
    [] e.type = "audio_chunk" -> 3
    [] OTHER -> 0

\* C3: a turn's events are emitted in the order function_call (only when the
\* turn has field updates, the reply removed), transcript of the full display
\* text tagged as AI output, audio; none of a later stage before an earlier one.
C3_EventsInStageOrder ==
  \A w \in Conns : \A j \in DOMAIN sent[w] :
    LET e == sent[w][j]
    IN /\ e.type = "function_call" =>
            /\ "reply" \notin DOMAIN e.body
            /\ ApplyUpdates(e.body.updates, EmptyDict) # EmptyDict
       /\ \A i \in 1..(j - 1) :
            LET d == sent[w][i]
            IN (d.turn = e.turn /\ e.turn # 0 /\ Stage(d) # 0 /\ Stage(e) # 0)
                 => Stage(d) <= Stage(e)

NullLike == {"null", "Null", "NULL", "none", "None", "NONE"}

\* a transcript that is empty, null-like, or holds a blocklisted noise string
IsNoise(heard) ==
  LET words == SelectSeq(heard, LAMBDA x : x \notin Whitespace)
  IN \/ words = << >>
     \/ Len(words) = 1 /\ words[1] \in NullLike /\ Strip(heard) = words
     \/ \E i \in DOMAIN heard : heard[i] \in NoiseBlocklist

\* C4: an audio message whose transcript is empty, null-like or noise returns
\* the empty result, with no chat call, no synthesis call, nothing appended to
\* the history and no event.
C4_NoiseShortCircuits ==
  \A t \in AllTurns :
    (t.kind = "audio" /\ t.stt = "ok" /\ IsNoise(t.heard)) =>
      /\ t \in FinishedTurns
      /\ t.complete_text = EmptyText /\ t.audio = NoAudio
      /\ t.chat_response.function_calls = << >>
      /\ t.nChat = 0 /\ t.nTts = 0 /\ t.nAppend = 0 /\ ~t.call.made
      /\ ~TurnHasEvents(t.id)

C4_Witness ==
  \E t \in FinishedTurns :
    /\ t.kind = "audio" /\ t.stt = "ok"
    /\ \E i \in DOMAIN t.heard : t.heard[i] \in NoiseBlocklist

\* the error events sent for the connect of websocket w
ConnectErrors(w) ==
  { p \in UNION { {x} \X DOMAIN sent[x] : x \in Conns } :
      LET e == sent[p[1]][p[2]]
      IN e.type = "error" /\ e.turn = 0 /\ e.by = w
         /\ e.via \in {"connect", "callback"} }

\* C5: when the service fails to initialize during connect, exactly one error
\* event is sent, and text turns make no model call.
C5_FailedInitOneErrorNoModelCall ==
  ~openai_api_key =>
    /\ \A w \in Conns :
         (pc[w] # "new" /\ tasks = << >>) => Cardinality(ConnectErrors(w)) = 1
    /\ \A t \in AllTurns : t.nChat = 0

C7_DispatchChangesOnlyItsTarget ==
  [][\A w \in Conns :
       /\ \A f \in Forms : HandleFormUpdate(w, f) =>
            /\ connection_configs[cid[w]] # NoConfig
            /\ connection_configs'[cid[w]] =
                 [ai_role |-> connection_configs[cid[w]].ai_role, form_data |-> f]
            /\ conversation_history' = conversation_history
       /\ \A r \in Roles : HandleRoleChange(w, r) =>
            /\ connection_configs[cid[w]] # NoConfig
            /\ connection_configs'[cid[w]] =
                 [ai_role |-> r, form_data |-> connection_configs[cid[w]].form_data]
            /\ conversation_history' = conversation_history
       /\ (HandleAudioChunk(w) \/ HandleAudioEnd(w) \/ HandleUnknown(w)) =>
            UNCHANGED << pc, cur, mgrVars, svcVars, tasks, sent, nTurns, turns >>
    ]_vars

\* C8: no turn replays to the model a conversation turn of a connection that
\* has disconnected.
C8_NoReplayOfDisconnectedTurns ==
  \A t \in AllTurns : \A i \in DOMAIN t.call.messages :
    t.call.messages[i].by \notin t.call.gone

\* C9: the persona and form context of a turn's model call are the ones last
\* written to the shared service by any connection (last write wins).
C9_LastWriteWins ==
  \A t \in AllTurns :
    t.call.made =>
      /\ t.call.ai_role = t.call.lastWrite.role
      /\ t.call.form = t.call.lastWrite.form

\* a turn of one connection is sent with the persona another connection wrote
C9_Witness ==
  \E w \in Conns :
    /\ pc[w] = "chat" /\ cur[w].call.made
    /\ cur[w].call.lastWrite.by \notin {w, NoConn}
    /\ connection_configs[cid[w]] # NoConfig
    /\ cur[w].call.ai_role # connection_configs[cid[w]].ai_role

\* C10: when a stage of a turn fails, an error is reported through the error
\* callback and the turn ends early: no later stage runs or emits its events.
C10_FailedStageEndsTheTurn ==
  \A t \in AllTurns :
    /\ t.stt = "raised" => (t.nErr >= 1 /\ t.nChat = 0 /\ t.nTts = 0)
    /\ t.chat = "raised" =>
         (t.nErr >= 1 /\ t.nTts = 0 /\ t.complete_text = EmptyText)
    /\ t.tts = "raised" => (t.nErr >= 1 /\ t.audio = NoAudio)

\* the events of stage k of a turn, sent or still to be sent
StageEvents(id, k) ==
  \/ \E w \in Conns : \E i \in DOMAIN sent[w] :
       sent[w][i].turn = id /\ Stage(sent[w][i]) = k
  \/ \E i \in DOMAIN tasks : tasks[i].turn = id /\ Stage(tasks[i]) = k

\* C10 as amended: a failed transcription or synthesis ends the turn early; a
\* failed chat completion is reported and the turn goes on with the fixed
\* apology as its reply, which is synthesized and emitted; the connection
\* stays in its receive loop.
C10_FailuresAreReported ==
  /\ \A t \in AllTurns :
       /\ t.stt = "raised" =>
            /\ t.nErr = 1 /\ t.nChat = 0 /\ t.nTts = 0
            /\ t.complete_text = EmptyText /\ t.audio = NoAudio
            /\ \A k \in 1..3 : ~StageEvents(t.id, k)
       /\ t.chat = "raised" =>
            /\ t.nErr >= 1 /\ t.nTts = 1
            /\ t.chat_response = [text |-> Apology, function_calls |-> << >>]
            /\ t.complete_text = Apology
            /\ ~StageEvents(t.id, 1)
            /\ t.tts = "ok" => t.audio = Speech(Apology)
       /\ t.tts = "raised" =>
            /\ t.nErr >= 1 /\ t.audio = NoAudio
            /\ ~StageEvents(t.id, 3)
  /\ \A w \in Open : cur[w] = NoTurn => pc[w] = "idle"

\* a turn whose chat completion failed has finished with the apology spoken,
\* and its connection has handled a later message
C10_Witness ==
  \E t \in FinishedTurns :
    /\ t.chat = "raised" /\ t.tts = "ok" /\ t.audio = Speech(Apology)
    /\ \E i \in DOMAIN startedSeq[t.by] : startedSeq[t.by][i].n > t.n

\* ------------------------------------------------- claims on the composition

\* text t begins with text prefix
StartsWith(t, prefix) ==
  Len(prefix) <= Len(t) /\ SubSeq(t, 1, Len(prefix)) = prefix

\* the adapter's message carries a structured invocation chat can read
HasInvocation(m) ==
  /\ m.tool_calls # << >>
  /\ m.tool_calls[1].arguments.parses
  /\ m.tool_calls[1].arguments.has_updates

\* the prose the precedence rule selects for a message with an invocation
PreferredProse(m) ==
  LET data == m.tool_calls[1].arguments
  IN IF Strip(ArgReply(data)) # EmptyText THEN data.reply
     ELSE IF Strip(m.content) # EmptyText THEN m.content
          ELSE << Acknowledgement >>

\* C11: with a structured invocation the prose of the composed reply is the
\* embedded reply if it is not blank, else the free text if it is not blank,
\* else the fixed acknowledgement, on the HTTP path and in the voice pipeline.
C11_ReplyPrecedence ==
  HasInvocation(ai_msg) =>
    /\ hpc = "done" => StartsWith(http_response.reply, PreferredProse(ai_msg))
    /\ voice_result.made => voice_result.spoken = PreferredProse(ai_msg)

\* the first words of the two summaries
SummaryHeaders == {"Updated fields:\n", "I've updated the following fields:\n"}

MentionsSummary(t) == \E i \in DOMAIN t : t[i] \in SummaryHeaders

\* the three texts the prose of a composed reply is chosen from
ProseChoices(m) ==
  { m.content, << Acknowledgement >> }
    \cup (IF HasInvocation(m) THEN { m.tool_calls[1].arguments.reply } ELSE {})

\* C12: with a non-empty updated_fields the composed reply is the chosen prose,
\* then the separator, then the summary of the updates, whichever of the three
\* prose choices was made; with an empty updated_fields no summary is appended.
C12_SummaryAfterSeparator ==
  /\ (hpc = "done" /\ http_response.status = 200) =>
       IF http_response.updated_fields # EmptyDict
       THEN \E prose \in ProseChoices(ai_msg) :
              StartsWith(http_response.reply,
                         prose \o << Separator >> \o format_updates(http_response.updated_fields))
       ELSE ~MentionsSummary(http_response.reply)
  /\ voice_result.made =>
       IF voice_result.updated_fields # EmptyDict
       THEN StartsWith(voice_result.text,
                       voice_result.spoken \o << Separator >>
                         \o _format_updates(voice_result.updated_fields))
       ELSE ~MentionsSummary(voice_result.text)

\* the handler answered a result that carries no structured invocation
AnsweredWithoutInvocation ==
  hpc = "done" /\ http_response.status = 200 /\ ai_msg.tool_calls = << >>

ProposedUpdates(m) == m.tool_calls[1].arguments.updates

\* mapping d holds exactly the fields of the list, each with the suggestion of
\* its last occurrence
MapsLastOccurrence(d, updates) ==
  /\ DictKeys(d) = { updates[i].field : i \in DOMAIN updates }
  /\ \A i \in DOMAIN updates :
       (\A j \in DOMAIN updates : j > i => updates[j].field # updates[i].field)
         => \E n \in DOMAIN d : d[n].k = updates[i].field /\ d[n].v = updates[i].suggestion
  /\ \A n, o \in DOMAIN d : d[n].k = d[o].k => n = o

\* C14: updated_fields maps each field identifier of the proposal list to the
\* suggestion of its last occurrence and has no other key, and has_updates is
\* true exactly when that mapping is not empty.
C14_LastOccurrenceWins ==
  HasInvocation(ai_msg) =>
    /\ (hpc = "done" /\ http_response.status = 200) =>
         /\ MapsLastOccurrence(http_response.updated_fields, ProposedUpdates(ai_msg))
         /\ http_response.has_updates = (http_response.updated_fields # EmptyDict)
    /\ voice_result.made =>
         MapsLastOccurrence(voice_result.updated_fields, ProposedUpdates(ai_msg))

\* the string a workload suggestion is to be observed as: the decimal string
\* of a number truncated toward zero, a string unchanged
WorkloadString(val) ==
  CASE val.t = "int" -> StrVal(ToString(val.n))
    [] val.t = "float" -> StrVal(ToString(TruncTenths(val.n)))
    [] OTHER -> val

\* the suggestions proposed for workload in the invocation of message m
WorkloadSuggestions(m) ==
  { ProposedUpdates(m)[i].suggestion :
      i \in { j \in DOMAIN ProposedUpdates(m) : ProposedUpdates(m)[j].field = "workload" } }

\* C15: the workload value the caller observes in updated_fields and in the
\* function-call event is a string: a numeric suggestion as the decimal string
\* of its truncated value, a string suggestion unchanged.
C15_WorkloadIsAString ==
  HasInvocation(ai_msg) =>
    /\ (hpc = "done" /\ http_response.status = 200) =>
         \A n \in DOMAIN http_response.updated_fields :
           http_response.updated_fields[n].k = "workload" =>
             /\ http_response.updated_fields[n].v.t = "str"
             /\ http_response.updated_fields[n].v
                  \in { WorkloadString(val) : val \in WorkloadSuggestions(ai_msg) }
    /\ voice_result.made =>
         \A c \in DOMAIN voice_result.function_calls :
           \A u \in DOMAIN voice_result.function_calls[c].updates :
             voice_result.function_calls[c].updates[u].field = "workload" =>
               voice_result.function_calls[c].updates[u].suggestion.t = "str"

\* the sections of the fields of mapping d, each once, in the order of the
\* first field of d that belongs to them
RECURSIVE SectionsInOrder(_, _)
SectionsInOrder(d, seen) ==
  IF d = << >> THEN seen
  ELSE LET section == FIELD_INFO(Head(d).k).section
       IN SectionsInOrder(Tail(d),
            IF section = "" \/ \E i \in DOMAIN seen : seen[i] = section
            THEN seen ELSE Append(seen, section))

\* the labels of the fields of d that belong to section, in the order of d
LabelsOfSection(d, section) ==
  LET members == SelectSeq(d, LAMBDA e : FIELD_INFO(e.k).section = section)
  IN [i \in DOMAIN members |-> FIELD_INFO(members[i].k).label]

\* the labels of the sectioned fields of d, section block after section block
RECURSIVE GroupedLabels(_, _)
GroupedLabels(d, sections) ==
  IF sections = << >> THEN << >>
  ELSE LabelsOfSection(d, Head(sections)) \o GroupedLabels(d, Tail(sections))

\* text t is a summary of mapping d grouped by section
GroupedBySection(t, d) ==
  LET sections == SectionsInOrder(d, << >>)
      names == { sections[i] : i \in DOMAIN sections }
      labels == { FIELD_INFO(d[i].k).label :
                    i \in { j \in DOMAIN d : FIELD_INFO(d[j].k).section # "" } }
  IN /\ SelectSeq(t, LAMBDA w : w \in names) = sections
     /\ SelectSeq(t, LAMBDA w : w \in labels) = GroupedLabels(d, sections)
     /\ \A i \in DOMAIN d :
          FIELD_INFO(d[i].k).section = "" =>
            \E j \in DOMAIN t : j > 1 /\ t[j] = d[i].k /\ t[j - 1] = "**"

\* C16: the summary of the updates groups the fields by section, each section
\* once and in the order of the first occurrence of one of its fields, the
\* fields of a section gathered in input order even when interleaved with
\* other sections' fields, a field outside the taxonomy standalone under its
\* raw identifier.
C16_SummaryGroupedBySection ==
  /\ (hpc = "done" /\ http_response.status = 200
        /\ http_response.updated_fields # EmptyDict) =>
       GroupedBySection(http_response.reply, http_response.updated_fields)
  /\ (voice_result.made /\ voice_result.updated_fields # EmptyDict) =>
       GroupedBySection(voice_result.text, voice_result.updated_fields)

\* C17: for the same model result POST /chat and the voice pipeline compose
\* the same display text (the provider line of POST /chat set aside), the
\* same updated_fields and the same has_updates outcome.
C17_SameCompositionOnBothPaths ==
  (hpc = "done" /\ voice_result.made) =>
    /\ http_response.status = 200
    /\ http_response.reply = voice_result.text \o PoweredBy(req.ai_provider)
    /\ http_response.updated_fields = voice_result.updated_fields
    /\ http_response.has_updates = (voice_result.updated_fields # EmptyDict)

\* ------------------------------------------- claims on the voice synthesis

\* the bodies of the events of one type of turn id, sent or still to be sent
BodiesOfTurn(id, type) ==
  UNION { { sent[w][i].body :
              i \in { j \in DOMAIN sent[w] :
                        sent[w][j].turn = id /\ sent[w][j].type = type } } :
            w \in Conns }
    \cup { tasks[i].body :
             i \in { j \in DOMAIN tasks : tasks[j].turn = id /\ tasks[j].type = type } }

\* the mapping of the updates of a turn's chat response
UpdatedOfTurn(t) == CollectUpdatedFields(t.chat_response.function_calls, EmptyDict)

\* C18: in the voice pipeline speech is synthesized from the prose reply only,
\* never from the summary of the updates, while the returned text and the
\* transcript event are the prose reply with the summary appended; an empty
\* prose reply is not synthesized at all.
C18_SpeechIsProseOnly ==
  \A t \in AllTurns :
    t.chat # "none" =>
      LET prose == t.chat_response.text
          updated == UpdatedOfTurn(t)
      IN /\ (prose = EmptyText) <=> (t.nTts = 0)
         /\ t.audio \in {NoAudio, Speech(prose)}
         /\ ~MentionsSummary(t.audio)
         /\ \A b \in BodiesOfTurn(t.id, "audio_chunk") : b = Speech(prose)
         /\ t.complete_text =
              IF updated # EmptyDict
              THEN prose \o << Separator >> \o _format_updates(updated) \o << ClosingRule >>
              ELSE prose
         /\ updated # EmptyDict => MentionsSummary(t.complete_text)
         /\ \A b \in BodiesOfTurn(t.id, "transcript") :
              Head(b) = AiTextTag => b = << AiTextTag >> \o t.complete_text

\* a finished turn with updates whose speech is the prose and whose transcript
\* carries the summary, and a finished turn with updates and no prose
C18_Witness ==
  /\ \E t \in FinishedTurns :
       /\ t.tts = "ok"
       /\ UpdatedOfTurn(t) # EmptyDict
       /\ t.audio = Speech(<< "Noted the weather." >>)
       /\ MentionsSummary(t.complete_text)
       /\ Speech(<< "Noted the weather." >>) \in BodiesOfTurn(t.id, "audio_chunk")
       /\ << AiTextTag >> \o t.complete_text \in BodiesOfTurn(t.id, "transcript")
  /\ \E t \in FinishedTurns :
       /\ t.chat = "ok"
       /\ t.chat_response.text = EmptyText
       /\ UpdatedOfTurn(t) # EmptyDict
       /\ t.nTts = 0

\* --------------------------------------------------- claims on the adapters

\* the backend call failed, or it yielded neither free text nor an invocation
BackendGaveNothing ==
  \/ hpc = "failed"
  \/ hpc = "done" /\ ai_msg.content = EmptyText /\ ai_msg.tool_calls = << >>

\* C19: chat_completion never raises to chat: after a failed backend call, or
\* one that yields neither text nor invocation, POST /chat answers normally
\* with an empty reply (its provider line set aside), an empty updated_fields
\* and has_updates false.
C19_FailuresBecomeEmptyResults ==
  BackendGaveNothing =>
    /\ http_response.status = 200
    /\ http_response.reply \in {EmptyText, PoweredBy(req.ai_provider)}
    /\ http_response.updated_fields = EmptyDict
    /\ http_response.has_updates = FALSE

\* the kinds of instruction a request calls for, in the order of assembly
InstructionTags(r) ==
  << "persona" >>
    \o (IF r.form # EmptyDict THEN << "form" >> ELSE << >>)
    \o (IF r.messages = << >> THEN << "first-turn" >> ELSE << >>)

\* C20: every invocation an adapter makes carries the complete instructions in
\* order: the persona template, the form snapshot if the request has form
\* values, the first-turn instruction if the history is empty; for both
\* adapters, for empty and non-empty histories.
C20_InstructionsCompleteAndOrdered ==
  hpc # "received" =>
    LET ins == invocation.instructions
        ai_role == IF req.ai_role = NoRole THEN "co-worker" ELSE req.ai_role
    IN /\ [i \in DOMAIN ins |-> ins[i].tag] = InstructionTags(req)
       /\ \A i \in DOMAIN ins :
            /\ ins[i].tag = "persona" => ins[i].text = get_prompt_by_role(ai_role)
            /\ ins[i].tag = "form" => ins[i].form = req.form

\* the role a backend knows a turn of the conversation by
BackendRole(backend, role) ==
  IF backend = "gemini" /\ role = "assistant" THEN "model" ELSE role

\* C21: an adapter replays to the model every turn it was given, the role in
\* the backend's vocabulary, in chronological order, none dropped, duplicated
\* or reordered.
C21_EveryTurnReplayedInOrder ==
  hpc # "received" =>
    invocation.turns =
      [i \in DOMAIN req.messages |->
         [role |-> BackendRole(invocation.backend, req.messages[i].role),
          content |-> req.messages[i].content]]

\* C22: a turn is handled with at most one structured invocation: the result
\* of the adapter exposes zero or one, and the function-call events and the
\* updated fields of the turn come from that one only, also when the backend
\* returns several tool calls.
C22_AtMostOneInvocation ==
  /\ hpc \in {"composing", "done"} => Len(ai_msg.tool_calls) <= 1
  /\ (hpc = "done" /\ http_response.status = 200 /\ HasInvocation(ai_msg)) =>
       DictKeys(http_response.updated_fields)
         \subseteq { ProposedUpdates(ai_msg)[i].field : i \in DOMAIN ProposedUpdates(ai_msg) }
  /\ voice_result.made =>
       /\ Len(voice_result.function_calls) <= 1
       /\ HasInvocation(ai_msg) =>
            DictKeys(voice_result.updated_fields)
              \subseteq { ProposedUpdates(ai_msg)[i].field : i \in DOMAIN ProposedUpdates(ai_msg) }

MalformedInvocation(m) ==
  /\ m.tool_calls # << >>
  /\ \/ ~m.tool_calls[1].arguments.parses
     \/ ~m.tool_calls[1].arguments.has_updates
     \/ ~m.tool_calls[1].arguments.has_reply

\* C24: a malformed invocation is a turn without updates: the composer answers
\* a well-formed result with an empty updated_fields and has_updates false and
\* raises no error, on the HTTP path and on the voice path.
C24_MalformedInvocationIsNoUpdate ==
  MalformedInvocation(ai_msg) =>
    /\ hpc = "done" =>
         /\ http_response.status = 200
         /\ http_response.updated_fields = EmptyDict
         /\ http_response.has_updates = FALSE
    /\ voice_result.made =>
         /\ voice_result.updated_fields = EmptyDict
         /\ ~MentionsSummary(voice_result.text)

\* ------------------------------------------------ claims on POST /initialize

\* C25: POST /initialize answers a list of exactly two replies, the greeting
\* and then the persona's summary of the filled fields with the list of the
\* fields still to be filled, whatever the model returns.
C25_InitializeAnswersTwoReplies ==
  hpc \in {"done", "failed"} =>
    /\ http_response.status = 200
    /\ Len(http_response.replies) = 2
    /\ http_response.replies[1].reply = welcome_msg_1(req.ai_role)
    /\ http_response.replies[2].updated_fields # EmptyDict =>
         MentionsSummary(http_response.replies[2].reply)
    /\ \E i \in DOMAIN http_response.replies[2].reply :
         http_response.replies[2].reply[i] = "Fields to complete: "

\* ------------------------------------------------ claims on prompt selection

\* the persona parts of the instructions the adapter sent
PersonaTexts ==
  { invocation.instructions[i].text :
      i \in { j \in DOMAIN invocation.instructions :
                invocation.instructions[j].tag = "persona" } }

\* the role chat passes to the adapter
RequestedRole == IF req.ai_role = NoRole THEN "co-worker" ELSE req.ai_role

\* C26: prompt selection never fails: for co-worker, butler and coach the
\* persona sent is that persona's template, for any other role it is the
\* co-worker template.
C26_PromptSelectionFallsBack ==
  \A text \in PersonaTexts :
    /\ RequestedRole = "co-worker" => text = "COWORKER_PROMPT"
    /\ RequestedRole = "butler" => text = "BUTLER_PROMPT"
    /\ RequestedRole = "coach" => text = "COACH_PROMPT"
    /\ RequestedRole \notin {"co-worker", "butler", "coach"} => text = "COWORKER_PROMPT"

C26_Witness ==
  /\ hpc = "done"
  /\ req.ai_role = "captain"
  /\ PersonaTexts = {"COWORKER_PROMPT"}

\* --------------------------------------------- claims on the voice delivery

\* the audio_chunk events of turn id websocket w was sent
AudioEventsOfTurn(w, id) ==
  SelectSeq(sent[w], LAMBDA e : e.turn = id /\ e.type = "audio_chunk")

\* C27: for a turn that yields speech the client that sent the message gets
\* one audio_chunk event, not one from the audio callback and another from
\* the handler.
C27_OneAudioEventPerTurn ==
  \A t \in FinishedTurns :
    t.audio # NoAudio =>
      /\ \A w \in Conns : Len(AudioEventsOfTurn(w, t.id)) <= 1
      /\ (tasks = << >> /\ pc[t.by] \notin {"new", "closed"}) =>
           Len(AudioEventsOfTurn(t.by, t.id)) = 1

\* a history of user and assistant turns in turn, the first a user turn
Alternating(h) ==
  \A i \in DOMAIN h : h[i].role = (IF i % 2 = 1 THEN "user" ELSE "assistant")

\* C28: after every voice turn, whether its chat completion answered or
\* failed, the shared history alternates user and assistant turns from a user
\* turn on and ends with an assistant turn, and so does what the next turn
\* replays to the model before its own user turn.
C28_HistoryAlternates ==
  /\ (\A w \in Conns : cur[w] = NoTurn) =>
       /\ Alternating(conversation_history)
       /\ Len(conversation_history) % 2 = 0
  /\ \A t \in AllTurns : t.call.made => Alternating(t.call.messages)

\* C29: the registry holds an entry for every open websocket: an open
\* connection is registered under its client_id, has its configuration, and
\* keeps the voice service initialized, until its own disconnect, also when
\* two connections use the same client_id.
C29_OpenConnectionsStayRegistered ==
  \A w \in Open :
    /\ active_connections[cid[w]] = w
    /\ connection_configs[cid[w]] # NoConfig
    /\ openai_api_key => is_connected

\* the function_call events websocket w was sent
FunctionCallEvents(w) == SelectSeq(sent[w], LAMBDA e : e.type = "function_call")

\* C30: once a function-call result with updates was handled for a connection,
\* the form the service supplies to the model agrees with the connection's
\* cached form_data on every updated field, with no form_update from the
\* client needed in between.
C30_FormContextFollowsFunctionCalls ==
  \A w \in Open :
    (active_connections[cid[w]] = w /\ lastWrite.by = w) =>
      \A i \in DOMAIN FunctionCallEvents(w) :
        LET updated == ApplyUpdates(FunctionCallEvents(w)[i].body.updates, EmptyDict)
        IN \A n \in DOMAIN updated :
             DictGet(form_context, updated[n].k, NoneVal)
               = DictGet(connection_configs[cid[w]].form_data, updated[n].k, NoneVal)

====
